---- MODULE Spec2Model ----
(***************************************************************************)
(* Model of collabstr_dual_scraper.py: the pagination planner, the two-    *)
(* category scrape (listing page -> cards -> detail page), the Instagram   *)
(* e-mail enrichment, the CSV export and the release of the two browser    *)
(* sessions in main().                                                     *)
(*                                                                         *)
(* Text is modelled as a sequence of tokens.  A URL is the token sequence  *)
(*   <<"https://x/y", "?", "a", "=", "1", "&", "page", "=", "2">>          *)
(* where "?", "&", "=", "#" are the delimiters urlparse / parse_qs split   *)
(* on, and a decimal number is a run of one-digit tokens.                  *)
(***************************************************************************)
EXTENDS Integers, Sequences, FiniteSets, TLC

(* ------------------------------ bounds --------------------------------- *)
\* largest page_count the planner is applied to in SpecPlan
MaxPageCount == 4
\* largest --pages value of a run
MaxPages == 2
\* largest --max_profiles value of a run
MaxProfiles == 1
\* most cards a listing page shows
MaxCards == 2
\* instagram anchors on one detail page (SpecResolve)
MaxAnchors == 2

(* --------------------------- sequence helpers -------------------------- *)
Range(s) == {s[i] : i \in 1..Len(s)}

\* position of the first occurrence of tok in s, 0 when absent
IndexOf(s, tok) ==
    IF tok \in Range(s) THEN CHOOSE i \in 1..Len(s) : s[i] = tok /\ \A j \in 1..(i-1) : s[j] # tok
    ELSE 0

RECURSIVE Split(_, _)
\* str.split(sep): the pieces of s between occurrences of the token sep
Split(s, sep) ==
    LET i == IndexOf(s, sep) IN
    IF i = 0 THEN <<s>>
    ELSE <<SubSeq(s, 1, i - 1)>> \o Split(SubSeq(s, i + 1, Len(s)), sep)

RECURSIVE Join(_, _)
\* sep.join(parts)
Join(parts, sep) ==
    IF parts = <<>> THEN <<>>
    ELSE IF Len(parts) = 1 THEN parts[1]
    ELSE parts[1] \o <<sep>> \o Join(Tail(parts), sep)

(* ------------------------- int() and str() ----------------------------- *)
Digits == <<"0", "1", "2", "3", "4", "5", "6", "7", "8", "9">>

IsDigit(t) == t \in Range(Digits)

DigitVal(t) == IndexOf(Digits, t) - 1

\* int(v) succeeds: an optional sign followed by at least one digit
IsInt(v) ==
    LET body == IF v # <<>> /\ v[1] \in {"-", "+"} THEN Tail(v) ELSE v IN
    body # <<>> /\ \A i \in 1..Len(body) : IsDigit(body[i])

RECURSIVE DecVal(_)
DecVal(ds) == IF ds = <<>> THEN 0 ELSE 10 * DecVal(SubSeq(ds, 1, Len(ds) - 1)) + DigitVal(ds[Len(ds)])

\* int(v) for a v with IsInt(v)
ToInt(v) ==
    IF v[1] = "-" THEN 0 - DecVal(Tail(v))
    ELSE IF v[1] = "+" THEN DecVal(Tail(v))
    ELSE DecVal(v)

RECURSIVE DecStr(_)
DecStr(n) == IF n < 10 THEN <<Digits[n + 1]>> ELSE DecStr(n \div 10) \o <<Digits[(n % 10) + 1]>>

\* str(n)
Str(n) == IF n < 0 THEN <<"-">> \o DecStr(0 - n) ELSE DecStr(n)

(* ------------------------ urlparse / parse_qs -------------------------- *)
\* urllib.parse.urlparse: scheme://netloc/path is the text before the first
\* "?" or "#", the query runs from the "?" to the "#", the rest is fragment
urlparse(url) ==
    LET h == IndexOf(url, "#")
        nofrag == IF h = 0 THEN url ELSE SubSeq(url, 1, h - 1)
        qm == IndexOf(nofrag, "?")
    IN [base     |-> IF qm = 0 THEN nofrag ELSE SubSeq(nofrag, 1, qm - 1),
        query    |-> IF qm = 0 THEN <<>> ELSE SubSeq(nofrag, qm + 1, Len(nofrag)),
        fragment |-> IF h = 0 THEN <<>> ELSE SubSeq(url, h + 1, Len(url))]

\* urllib.parse.unquote on one token: a percent escape or "+" decodes
UnquoteTok(t) == IF t \in {"%20", "+"} THEN " " ELSE t

Unquote(v) == [i \in 1..Len(v) |-> UnquoteTok(v[i])]

\* the (name, value) pairs parse_qsl keeps: a field without "=" and a field
\* with a blank value are dropped (keep_blank_values=False)
RECURSIVE QslPairs(_)
QslPairs(fields) ==
    IF fields = <<>> THEN <<>>
    ELSE LET f == Head(fields)
             e == IndexOf(f, "=")
             v == SubSeq(f, e + 1, Len(f))
         IN (IF e = 0 \/ v = <<>> THEN <<>>
             ELSE << [k |-> Unquote(SubSeq(f, 1, e - 1)), v |-> Unquote(v)] >>)
            \o QslPairs(Tail(fields))

RECURSIVE DictOf(_, _)
\* the dict parse_qs builds: keys in order of first appearance, each with the
\* list of its values
DictOf(pairs, d) ==
    IF pairs = <<>> THEN d
    ELSE LET p == Head(pairs)
             at == IF \E i \in 1..Len(d) : d[i].k = p.k
                   THEN CHOOSE i \in 1..Len(d) : d[i].k = p.k ELSE 0
         IN DictOf(Tail(pairs),
                   IF at = 0 THEN Append(d, [k |-> p.k, vals |-> <<p.v>>])
                   ELSE [d EXCEPT ![at].vals = Append(@, p.v)])

parse_qs(query) == DictOf(QslPairs(Split(query, "&")), <<>>)

HasKey(q, key) == \E i \in 1..Len(q) : q[i].k = key

Lookup(q, key) == q[CHOOSE i \in 1..Len(q) : q[i].k = key].vals

\* q[k] = [str(v)]: an existing key keeps its place, a new key goes last
DictSet(q, key, vals) ==
    IF HasKey(q, key)
    THEN [i \in 1..Len(q) |-> IF q[i].k = key THEN [k |-> key, vals |-> vals] ELSE q[i]]
    ELSE Append(q, [k |-> key, vals |-> vals])

(* ----------------------------- pagination ------------------------------ *)
PageKey == <<"page">>

RECURSIVE QueryParts(_)
\* the "k=v" parts of rebuild_query, one per value of each key
QueryParts(q) ==
    IF q = <<>> THEN <<>>
    ELSE [i \in 1..Len(Head(q).vals) |-> Head(q).k \o <<"=">> \o Head(q).vals[i]]
         \o QueryParts(Tail(q))

rebuild_query(parsed, key, n) ==
    LET q == DictSet(parse_qs(parsed.query), key, <<Str(n)>>)
    IN parsed.base \o <<"?">> \o Join(QueryParts(q), "&")

\* mutant of PageStart: the fallback to 1 is lost and the numbering restarts at 0
PageStartNoFallback(q) == IF IsInt(Lookup(q, PageKey)[1]) THEN ToInt(Lookup(q, PageKey)[1]) ELSE 0

\* start of the numbering when the seed has a page parameter
PageStart(q) == IF IsInt(Lookup(q, PageKey)[1]) THEN ToInt(Lookup(q, PageKey)[1]) ELSE 1

paginate_urls(first_url, max_pages) ==
    LET parsed == urlparse(first_url)
        q == parse_qs(parsed.query)
        extra == IF max_pages > 1 THEN max_pages - 1 ELSE 0
    IN IF HasKey(q, PageKey)
       THEN <<first_url>> \o
            [i \in 1..extra |-> rebuild_query(parsed, PageKey, PageStart(q) + i)]
       ELSE <<first_url>> \o
            [i \in 1..extra |->
                first_url \o <<IF parsed.query # <<>> THEN "&" ELSE "?">>
                          \o <<"pg", "=">> \o Str(i + 1)]

(* --------------------------- validate_email ---------------------------- *)
\* an e-mail address is a sequence of one-character tokens
Letters == {"a", "b", "c", "d", "e", "f", "g", "h", "i", "j", "k", "l", "m",
            "n", "o", "p", "q", "r", "s", "t", "u", "v", "w", "x", "y", "z"}

UpperOf == [c \in {"A", "B", "X"} |-> CASE c = "A" -> "a" [] c = "B" -> "b" [] c = "X" -> "x"]

\* str.lower() on one-character tokens
LowerChar(c) == IF c \in DOMAIN UpperOf THEN UpperOf[c] ELSE c

LowerChars(s) == [i \in 1..Len(s) |-> LowerChar(s[i])]

IsLetter(c) == LowerChar(c) \in Letters

IsWordChar(c) == IsLetter(c) \/ IsDigit(c) \/ c = "_"

IsLocalChar(c) == IsLetter(c) \/ IsDigit(c) \/ c \in {".", "_", "%", "+", "-"}

IsDomainChar(c) == IsLetter(c) \/ IsDigit(c) \/ c \in {".", "-"}

\* s contains sub as a contiguous run
ContainsSeq(s, sub) ==
    \E i \in 1..(Len(s) - Len(sub) + 1) : SubSeq(s, i, i + Len(sub) - 1) = sub

\* EMAIL_REGEX.match(e): \b local+ @ domain+ \. letters{2,} \b anchored at
\* the start of e only
EmailRegexMatch(e) ==
    LET at == IndexOf(e, "@") IN
    /\ at >= 2
    /\ IsWordChar(e[1])
    /\ \A i \in 1..(at - 1) : IsLocalChar(e[i])
    /\ \E dot \in (at + 2)..Len(e) : \E end \in (dot + 2)..Len(e) :
          /\ e[dot] = "."
          /\ \A i \in (at + 1)..(dot - 1) : IsDomainChar(e[i])
          /\ \A i \in (dot + 1)..end : IsLetter(e[i])
          /\ (end = Len(e) \/ ~IsWordChar(e[end + 1]))

InvalidPatterns ==
    { <<"n","o","r","e","p","l","y">>,
      <<"n","o","-","r","e","p","l","y">>,
      <<"d","o","n","o","t","r","e","p","l","y">>,
      <<"e","x","a","m","p","l","e",".","c","o","m">>,
      <<"t","e","s","t","@">>,
      <<"a","d","m","i","n","@","l","o","c","a","l","h","o","s","t">> }

validate_email(raw) ==
    LET email == LowerChars(raw)
        parts == Split(email, "@")
        labels == Split(parts[2], ".")
    IN /\ raw # <<>>
       /\ EmailRegexMatch(email)
       /\ \A p \in InvalidPatterns : ~ContainsSeq(email, p)
       /\ Len(email) >= 6 /\ Len(email) <= 254
       /\ Len(parts) = 2
       /\ Len(parts[1]) <= 64 /\ parts[1] # <<>>
       /\ Len(parts[2]) <= 253 /\ parts[2] # <<>> /\ "." \in Range(parts[2])
       /\ Len(labels[Len(labels)]) >= 2

(* ---------------------- validate_heading_for_role ---------------------- *)
\* a heading is a sequence of word tokens; str.lower() word by word
LowerWord(w) ==
    CASE w = "UGC" -> "ugc"
      [] w = "Video" -> "video"
      [] w = "Editor" -> "editor"
      [] w = "Content" -> "content"
      [] w = "Creator" -> "creator"
      [] w = "Collabstr" -> "collabstr"
      [] w = "Reel" -> "reel"
      [] OTHER -> w

LowerWords(h) == [i \in 1..Len(h) |-> LowerWord(h[i])]

ugc_terms == { <<"ugc">>, <<"user", "generated", "content">>, <<"content", "creator">> }

video_terms == { <<"video">>, <<"editor">>, <<"video", "editor">>, <<"video", "editing">> }

validate_heading_for_role(heading_text, role_type) ==
    IF heading_text = <<>> THEN FALSE
    ELSE IF role_type = "ugc"
         THEN \E term \in ugc_terms : ContainsSeq(LowerWords(heading_text), term)
    ELSE IF role_type = "video_editor"
         THEN \E term \in video_terms : ContainsSeq(LowerWords(heading_text), term)
    ELSE FALSE

(* -------------------------- extract_from_card -------------------------- *)
BASE == "https://collabstr.com"

UGC_URL == <<"https://collabstr.com/influencers", "?", "c", "=", "ugc">>

VIDEO_URL == <<"https://collabstr.com/influencers", "?", "c", "=", "video">>

BannedInHref == {"login", "signup", "about", "contact"}

RECURSIVE RStrip(_, _)
\* str.rstrip(tok)
RStrip(s, tok) ==
    IF s # <<>> /\ s[Len(s)] = tok THEN RStrip(SubSeq(s, 1, Len(s) - 1), tok) ELSE s

LastPiece(s, sep) == LET ps == Split(s, sep) IN ps[Len(ps)]

\* a token that reads as digits "." digits, the rating shown after a name
IsRating(t) == t \in {"4.9", "5.0"}

\* re.sub(r'\s*\d+\.\d+\s*$', '', raw_name).strip()
StripRating(name) ==
    IF name # <<>> /\ IsRating(name[Len(name)]) THEN SubSeq(name, 1, Len(name) - 1) ELSE name

EmptyCardData ==
    [profile_url |-> <<>>, username |-> <<>>, name |-> <<>>, email |-> <<>>, heading |-> <<>>]

\* el: [has_link, href, has_name, name_text, has_heading, heading_text,
\*      email_match]; email_match is the first EMAIL_REGEX match in the card
\* text, <<>> when there is none
extract_from_card(el) ==
    IF ~el.has_link THEN EmptyCardData
    ELSE LET ok == el.href # <<>> /\ \A x \in BannedInHref : x \notin Range(el.href)
             seg == LastPiece(RStrip(el.href, "/"), "/")
             username == IF ok /\ seg # <<>> THEN <<"@">> \o seg ELSE <<>>
         IN [profile_url |-> IF ok THEN el.href ELSE <<>>,
             username    |-> username,
             name        |-> IF el.has_name THEN StripRating(el.name_text) ELSE username,
             heading     |-> IF el.has_heading THEN el.heading_text ELSE <<>>,
             email       |-> IF validate_email(el.email_match) THEN el.email_match ELSE <<>>]

(* ------------------- extract_instagram_from_profile -------------------- *)
InvalidHandles == {"p", "reel", "reels", "tv", "stories", "explore", "accounts", "direct"}

HrefDelims == {"/", "?", "#", "&", "="}

\* re.search(r"instagram\.com/([a-zA-Z0-9._]+?)(?:/|\?|$)", href): the path
\* segment right after the domain, "" when the pattern does not match
HandleMatch(href) ==
    LET d == IndexOf(href, "instagram.com") IN
    IF /\ d > 0 /\ Len(href) >= d + 2
       /\ href[d + 1] = "/"
       /\ href[d + 2] \notin HrefDelims
       /\ (Len(href) = d + 2 \/ href[d + 3] \in {"/", "?"})
    THEN href[d + 2] ELSE ""

HandleAccepted(handle) ==
    /\ handle # ""
    /\ LowerWord(handle) # "collabstr"
    /\ LowerWord(handle) \notin InvalidHandles

RECURSIVE FirstHandle(_)
\* the loop over the instagram anchors: the first accepted handle wins
FirstHandle(anchors) ==
    IF anchors = <<>> THEN ""
    ELSE IF HandleAccepted(HandleMatch(Head(anchors))) THEN HandleMatch(Head(anchors))
    ELSE FirstHandle(Tail(anchors))

\* mutant of HeadingAbsentValid: a missing heading leaves heading_valid at True
HeadingAbsentStaysValid == TRUE

\* the result for a detail page whose heading element is absent
HeadingAbsentValid == FALSE

\* page: [loads, has_heading, heading_text, anchors]; expected_role "" is
\* Python's None.  Returns <<handle, heading_valid>>
extract_instagram_from_profile(page, expected_role) ==
    IF ~page.loads THEN <<"", FALSE>>
    ELSE IF expected_role # "" /\ page.has_heading
            /\ ~validate_heading_for_role(page.heading_text, expected_role)
         THEN <<"", FALSE>>
    ELSE LET heading_valid ==
                 IF expected_role # "" /\ ~page.has_heading THEN HeadingAbsentValid ELSE TRUE
         IN <<FirstHandle(page.anchors), heading_valid>>

(* ------------------- fetch_instagram_email_selenium -------------------- *)
\* mutant of fetch_instagram_email_selenium: the match is returned unvalidated
FetchEmailUnvalidated(instagram_handle, driver_ok, bio) ==
    IF instagram_handle = "" \/ ~driver_ok \/ ~bio.loads THEN <<>> ELSE bio.email_match

\* bio: [loads, email_match]; driver_ok: get_instagram_driver() returned a
\* driver.  Returns the e-mail, <<>> for Python's ""
fetch_instagram_email_selenium(instagram_handle, driver_ok, bio) ==
    IF instagram_handle = "" THEN <<>>
    ELSE IF ~driver_ok \/ ~bio.loads THEN <<>>
    ELSE IF bio.email_match # <<>> /\ validate_email(bio.email_match) THEN bio.email_match
    ELSE <<>>

(* ------------------------ the pages a run can meet --------------------- *)
HrefAlice == <<BASE, "/", "alice">>

HrefBob == <<BASE, "/", "bob", "/">>

HrefLogin == <<BASE, "/", "login">>

MailOk == <<"a", "@", "b", ".", "c", "o">>

MailBio == <<"c", "@", "d", ".", "i", "o">>

MailExample == <<"x", "@", "e", "x", "a", "m", "p", "l", "e", ".", "c", "o", "m">>

HeadingBoth == <<"UGC", "Video", "Editor">>

HeadingUgc == <<"Content", "Creator">>

HeadingOther == <<"Fashion", "model">>

Card(has_link, href, has_name, name_text, has_heading, heading_text, email_match) ==
    [has_link |-> has_link, href |-> href, has_name |-> has_name, name_text |-> name_text,
     has_heading |-> has_heading, heading_text |-> heading_text, email_match |-> email_match]

\* the listing cards: alice (heading of both roles, valid e-mail), bob (no
\* heading and no name element, an e-mail that fails validation), and cards
\* that are dropped: no link, a /login link, a name that is only a rating,
\* a heading of another role
Cards ==
    { Card(TRUE, HrefAlice, TRUE, <<"Alice", "4.9">>, TRUE, HeadingBoth, MailOk),
      Card(TRUE, HrefBob, FALSE, <<>>, FALSE, <<>>, MailExample),
      Card(FALSE, <<>>, TRUE, <<"Carol">>, TRUE, HeadingBoth, MailOk),
      Card(TRUE, HrefLogin, TRUE, <<"Dan">>, TRUE, HeadingBoth, <<>>),
      Card(TRUE, HrefAlice, TRUE, <<"5.0">>, TRUE, HeadingBoth, <<>>),
      Card(TRUE, HrefBob, TRUE, <<"Bob">>, TRUE, HeadingOther, <<>>) }

SeqsUpTo(S, n) == UNION { [1..k -> S] : k \in 0..n }

\* a listing page: it fails to load, or shows up to MaxCards cards
ListingPages ==
    { [loads |-> FALSE, cards |-> <<>>] } \cup
    { [loads |-> TRUE, cards |-> cs] : cs \in SeqsUpTo(Cards, MaxCards) }

IgHref(seg) == <<"https://www.", "instagram.com", "/", seg, "/">>

Detail(loads, has_heading, heading_text, anchors) ==
    [loads |-> loads, has_heading |-> has_heading, heading_text |-> heading_text,
     anchors |-> anchors]

\* the profile detail pages
DetailPages ==
    { Detail(FALSE, FALSE, <<>>, <<>>),
      Detail(TRUE, FALSE, <<>>, <<IgHref("alice.ig")>>),
      Detail(TRUE, TRUE, HeadingBoth, <<IgHref("Collabstr"), IgHref("reel"), IgHref("alice.ig")>>),
      Detail(TRUE, TRUE, HeadingBoth, <<>>),
      Detail(TRUE, TRUE, HeadingUgc, <<IgHref("alice.ig")>>),
      Detail(TRUE, TRUE, HeadingOther, <<IgHref("alice.ig")>>) }

\* the anchors a detail page may show: a handle, the site's own account, a
\* reel link, a link without a handle
Anchors ==
    { IgHref("alice.ig"), IgHref("Collabstr"), IgHref("reel"),
      <<"https://www.", "instagram.com", "/">> }

\* the detail pages the resolver is applied to in SpecResolve; a page without
\* a heading element has no heading text
ProfilePages ==
    { Detail(loads, has_heading, heading_text, anchors) :
        loads \in BOOLEAN, has_heading \in BOOLEAN,
        heading_text \in {<<>>, HeadingBoth, HeadingUgc, HeadingOther},
        anchors \in SeqsUpTo(Anchors, MaxAnchors) }
    \ { Detail(loads, FALSE, heading_text, anchors) :
          loads \in BOOLEAN, heading_text \in {HeadingBoth, HeadingUgc, HeadingOther},
          anchors \in SeqsUpTo(Anchors, MaxAnchors) }

\* the Instagram bio pages: email_match is the first EMAIL_REGEX match in
\* the page source
BioPages ==
    { [loads |-> FALSE, email_match |-> <<>>],
      [loads |-> TRUE, email_match |-> <<>>],
      [loads |-> TRUE, email_match |-> MailBio],
      [loads |-> TRUE, email_match |-> MailExample] }

\* the seeds the planner is applied to in SpecPlan
SeedBase == "https://x/y"

Seeds ==
    { <<SeedBase>>,
      <<SeedBase, "?">>,
      <<SeedBase, "#", "top">>,
      <<SeedBase, "?", "c", "=", "ugc">>,
      <<SeedBase, "?", "c", "=", "ugc", "#", "top">>,
      <<SeedBase, "?", "page", "=", "2">>,
      <<SeedBase, "?", "page", "=", "9">>,
      <<SeedBase, "?", "page", "=", "-", "1">>,
      <<SeedBase, "?", "page", "=", "1", "0">>,
      <<SeedBase, "?", "page", "=", "abc">>,
      <<SeedBase, "?", "page", "=">>,
      <<SeedBase, "?", "page">>,
      <<SeedBase, "?", "page", "=", "2", "&", "page", "=", "5">>,
      <<SeedBase, "?", "page", "=", "&", "page", "=", "3">>,
      <<SeedBase, "?", "c", "=", "ugc", "&", "page", "=", "2">>,
      <<SeedBase, "?", "a", "=", "1", "&", "page", "=", "2", "&", "a", "=", "3">>,
      <<SeedBase, "?", "a", "=", "&", "page", "=", "2">>,
      <<SeedBase, "?", "q", "=", "x", "%20", "y", "&", "page", "=", "2">> }

(* ------------------------------- state --------------------------------- *)
VARIABLES
    pc,                \* where main() is
    outcome,           \* how the run ended: "running" until it has
    max_pages,         \* --pages
    max_profiles,      \* --max_profiles
    session_driver,    \* CollabstrSession.driver: "none", "open" or "stuck"
    instagram_driver,  \* scraper.instagram_driver: "none", "open", "quit" or "stuck"
    ugc_rows,
    video_rows,
    ugc_profile_urls,
    role,              \* scrape_category: role_type
    urls,              \* scrape_category: the planned listing URLs
    url_i,             \* scrape_category: index of the next URL
    rows,              \* scrape_category: rows
    card_data_list,    \* parse_search_page: candidates still to resolve
    out,               \* parse_search_page: out
    enrich_role,       \* save_csv: the category being enriched
    enrich_i,          \* enrich_with_instagram_emails: index of the next row
    files,             \* the CSV files written, by category
    plan,              \* the planner under test (SpecPlan)
    resolve,           \* the profile resolver under test (SpecResolve)
    \* history variables, read by the properties only
    acquired,          \* browsers started, by session
    phases,            \* the phases entered, in order
    accepted_all,      \* all rows parse_search_page returned to this scrape_category
    nav_failed,        \* a listing, detail or bio page failed to load
    bio_log,           \* per row: resolver calls and the last e-mail returned
    pre_rows           \* the rows as they were when save_csv was entered

vars == <<pc, outcome, max_pages, max_profiles, session_driver, instagram_driver,
          ugc_rows, video_rows, ugc_profile_urls, role, urls, url_i, rows,
          card_data_list, out, enrich_role, enrich_i, files, plan, resolve, acquired,
          phases, accepted_all, nav_failed,
          bio_log, pre_rows>>

runVars == <<pc, outcome, max_pages, max_profiles, session_driver, instagram_driver,
             ugc_rows, video_rows, ugc_profile_urls, role, urls, url_i, rows,
             card_data_list, out, enrich_role, enrich_i, files, acquired,
             phases, accepted_all, nav_failed,
             bio_log, pre_rows>>

Roles == {"ugc", "video_editor"}

NoFile == [written |-> FALSE, rows |-> <<>>]

PlanIdle == [pc |-> "idle", seed |-> <<>>, page_count |-> 0, urls |-> <<>>]

ResolveIdle == [pc |-> "idle", page |-> Detail(FALSE, FALSE, <<>>, <<>>), expected_role |-> "",
                result |-> <<"", FALSE>>]

RunInit ==
    /\ pc = "Start"
    /\ outcome = "running"
    /\ session_driver = "none"
    /\ instagram_driver = "none"
    /\ ugc_rows = <<>>
    /\ video_rows = <<>>
    /\ ugc_profile_urls = {}
    /\ role = ""
    /\ urls = <<>>
    /\ url_i = 0
    /\ rows = <<>>
    /\ card_data_list = <<>>
    /\ out = <<>>
    /\ enrich_role = ""
    /\ enrich_i = 0
    /\ files = [r \in Roles |-> NoFile]
    /\ acquired = [listing |-> 0, bio |-> 0]
    /\ phases = <<>>
    /\ accepted_all = <<>>
    /\ nav_failed = FALSE
    /\ bio_log = [r \in Roles |-> <<>>]
    /\ pre_rows = [r \in Roles |-> <<>>]

Init ==
    /\ max_pages \in 1..MaxPages
    /\ max_profiles \in 0..MaxProfiles
    /\ plan = PlanIdle
    /\ resolve = ResolveIdle
    /\ RunInit

(* ------------------------------- login --------------------------------- *)
\* main(): the credentials are missing, no scraper is built
MainNoCredentials ==
    /\ pc = "Start"
    /\ pc' = "Exit"
    /\ outcome' = "no_credentials"
    /\ UNCHANGED <<max_pages, max_profiles, session_driver, instagram_driver, ugc_rows,
                   video_rows, ugc_profile_urls, role, urls, url_i, rows, card_data_list,
                   out, enrich_role, enrich_i, files, plan, resolve, acquired, phases,
                   accepted_all, nav_failed, bio_log, pre_rows>>

\* run() -> get_authenticated_driver() -> CollabstrSession.login(): Chrome
\* does not start ("no_driver"), the login is rejected with the driver kept
\* in session.driver ("rejected"), or the session is authenticated ("ok") and
\* scrape_category(UGC_URL, "ugc", max_profiles) begins
Login ==
    /\ pc = "Start"
    /\ \E res \in {"no_driver", "rejected", "ok"} :
          /\ session_driver' = IF res = "no_driver" THEN "none" ELSE "open"
          /\ acquired' = IF res = "no_driver" THEN acquired
                         ELSE [acquired EXCEPT !.listing = @ + 1]
          /\ IF res = "ok"
             THEN /\ pc' = "Scraping"
                  /\ role' = "ugc"
                  /\ urls' = paginate_urls(UGC_URL, max_pages)
                  /\ url_i' = 1
                  /\ phases' = <<"ScrapingUGC">>
                  /\ UNCHANGED outcome
             ELSE /\ pc' = "Finally"
                  /\ outcome' = "login_failed"
                  /\ UNCHANGED <<role, urls, url_i, phases>>
    /\ UNCHANGED <<max_pages, max_profiles, instagram_driver, ugc_rows, video_rows,
                   ugc_profile_urls, rows, card_data_list, out, enrich_role, enrich_i,
                   files, plan, resolve, accepted_all,
                   nav_failed, bio_log, pre_rows>>

(* --------------------------- parse_search_page ------------------------- *)
\* mutant of CoarsePass: the coarse filter is lost
CoarsePassAll(d, role_type) == TRUE

\* the coarse role filter on the card heading
CoarsePass(d, role_type) ==
    ~(d.heading # <<>> /\ ~validate_heading_for_role(d.heading, role_type))

\* the cross-category duplicate check
IsDuplicate(d, role_type, seen) == role_type = "video_editor" /\ d.profile_url \in seen

KeepCard(d, role_type, seen) ==
    /\ CoarsePass(d, role_type)
    /\ d.profile_url # <<>> /\ d.name # <<>>
    /\ ~IsDuplicate(d, role_type, seen)

CardData(el, role_type) ==
    LET d == extract_from_card(el)
    IN [profile_url |-> d.profile_url, username |-> d.username, name |-> d.name,
        heading |-> d.heading, email |-> d.email, role_type |-> role_type,
        instagram_handle |-> "", detail_ok |-> FALSE]

\* card_data_list of a page that shows cards
CardDataList(cards, role_type, seen) ==
    LET ds == [i \in 1..Len(cards) |-> CardData(cards[i], role_type)]
        Test(d) == KeepCard(d, role_type, seen)
    IN SelectSeq(ds, Test)

\* mutant of AfterListingLoad: the exception of a failed load leaves run()
AfterListingLoadRaises(loads) == IF loads THEN "Resolving" ELSE "Finally"

\* where parse_search_page goes after driver.get(url): a page that fails to
\* load raises inside the try and the function returns []
AfterListingLoad(loads) == "Resolving"

\* len(rows) >= max_profiles
BudgetReached(rs, budget) == Len(rs) >= budget

\* scrape_category: one iteration loads the next listing page
ScrapePage ==
    /\ pc = "Scraping"
    /\ url_i <= Len(urls)
    /\ ~BudgetReached(rows, max_profiles)
    /\ \E page \in ListingPages :
          /\ card_data_list' = IF page.loads
                               THEN CardDataList(page.cards, role, ugc_profile_urls)
                               ELSE <<>>
          /\ nav_failed' = (nav_failed \/ ~page.loads)
          /\ pc' = AfterListingLoad(page.loads)
    /\ out' = <<>>
    /\ UNCHANGED <<outcome, max_pages, max_profiles, session_driver, instagram_driver,
                   ugc_rows, video_rows, ugc_profile_urls, role, urls, url_i, rows,
                   enrich_role, enrich_i, files, plan, resolve, acquired, phases,
                   accepted_all, bio_log, pre_rows>>

\* history: the detail page was loaded and its heading names the role
DetailHeadingOk(page, role_type) ==
    /\ page.loads /\ page.has_heading
    /\ validate_heading_for_role(page.heading_text, role_type)

\* the second loop of parse_search_page: the detail page of one candidate
ResolveProfile ==
    /\ pc = "Resolving"
    /\ card_data_list # <<>>
    /\ \E page \in DetailPages :
          LET d == Head(card_data_list)
              res == extract_instagram_from_profile(page, role)
          IN /\ out' = IF res[2]
                       THEN Append(out, [d EXCEPT !.instagram_handle = res[1],
                                                  !.detail_ok = DetailHeadingOk(page, role)])
                       ELSE out
             /\ nav_failed' = (nav_failed \/ ~page.loads)
    /\ card_data_list' = Tail(card_data_list)
    /\ UNCHANGED <<pc, outcome, max_pages, max_profiles, session_driver, instagram_driver,
                   ugc_rows, video_rows, ugc_profile_urls, role, urls, url_i, rows,
                   enrich_role, enrich_i, files, plan, resolve, acquired, phases,
                   accepted_all, bio_log, pre_rows>>

(* ---------------------------- scrape_category -------------------------- *)
\* mutant of ExtendRows: the slice rows[:max_profiles] is lost
ExtendRowsUncut(rs, page_rows, budget) == rs \o page_rows

\* rows.extend(page_rows), cut to the budget once it is reached
ExtendRows(rs, page_rows, budget) ==
    LET all == rs \o page_rows
    IN IF BudgetReached(all, budget) THEN SubSeq(all, 1, budget) ELSE all

\* parse_search_page returns out; scrape_category extends rows with it
PageReturn ==
    /\ pc = "Resolving"
    /\ card_data_list = <<>>
    /\ rows' = ExtendRows(rows, out, max_profiles)
    /\ accepted_all' = accepted_all \o out
    /\ url_i' = url_i + 1
    /\ out' = <<>>
    /\ pc' = "Scraping"
    /\ UNCHANGED <<outcome, max_pages, max_profiles, session_driver, instagram_driver,
                   ugc_rows, video_rows, ugc_profile_urls, role, urls, card_data_list,
                   enrich_role, enrich_i, files, plan, resolve, acquired, phases,
                   nav_failed, bio_log, pre_rows>>

\* mutant of SeenAfterCategory: the URLs of every scraped category are stored
SeenStoresEveryCategory(seen, role_type, rs) ==
    seen \cup {rs[i].profile_url : i \in 1..Len(rs)}

\* what run() leaves in ugc_profile_urls once a category is scraped: the line
\* that stored the ugc URLs is commented out
SeenAfterCategory(seen, role_type, rs) == seen

ScrapeOver == url_i > Len(urls) \/ BudgetReached(rows, max_profiles)

\* run(): scrape_category("ugc") returns, scrape_category("video_editor") begins
UgcReturn ==
    /\ pc = "Scraping"
    /\ role = "ugc"
    /\ ScrapeOver
    /\ ugc_rows' = rows
    /\ ugc_profile_urls' = SeenAfterCategory(ugc_profile_urls, role, rows)
    /\ role' = "video_editor"
    /\ urls' = paginate_urls(VIDEO_URL, max_pages)
    /\ url_i' = 1
    /\ rows' = <<>>
    /\ phases' = Append(phases, "ScrapingVideo")
    /\ accepted_all' = <<>>
    /\ UNCHANGED <<pc, outcome, max_pages, max_profiles, session_driver, instagram_driver,
                   video_rows, card_data_list, out, enrich_role, enrich_i, files, plan, resolve,
                   acquired, nav_failed,
                   bio_log, pre_rows>>

\* run(): scrape_category("video_editor") returns and run() with it
VideoReturn ==
    /\ pc = "Scraping"
    /\ role = "video_editor"
    /\ ScrapeOver
    /\ video_rows' = rows
    /\ ugc_profile_urls' = SeenAfterCategory(ugc_profile_urls, role, rows)
    /\ role' = ""
    /\ urls' = <<>>
    /\ url_i' = 0
    /\ rows' = <<>>
    /\ pc' = "SaveCsv"
    /\ accepted_all' = <<>>
    /\ UNCHANGED <<outcome, max_pages, max_profiles, session_driver, instagram_driver,
                   ugc_rows, card_data_list, out, enrich_role, enrich_i, files, plan, resolve,
                   acquired, phases,
                   nav_failed, bio_log, pre_rows>>

(* ------------------------------- save_csv ------------------------------ *)
RowsOf(r) == IF r = "ugc" THEN ugc_rows ELSE video_rows

\* mutant of NothingToSave: one empty category is enough to save nothing
NothingToSaveEither(u, v) == u = <<>> \/ v = <<>>

\* not self.ugc_rows and not self.video_rows
NothingToSave(u, v) == u = <<>> /\ v = <<>>

\* save_csv(): nothing to save, or the enrichment of the first category
\* that has rows begins
SaveCsv ==
    /\ pc = "SaveCsv"
    /\ IF NothingToSave(ugc_rows, video_rows)
       THEN /\ pc' = "Finally"
            /\ outcome' = "completed"
            /\ phases' = Append(phases, "Done")
            /\ UNCHANGED <<enrich_role, enrich_i, bio_log, pre_rows>>
       ELSE /\ pc' = "Enriching"
            /\ enrich_role' = IF ugc_rows # <<>> THEN "ugc" ELSE "video_editor"
            /\ enrich_i' = 1
            /\ phases' = Append(phases, "Enriching")
            /\ pre_rows' = [r \in Roles |-> RowsOf(r)]
            /\ bio_log' = [r \in Roles |->
                             [i \in 1..Len(RowsOf(r)) |-> [calls |-> 0, returned |-> <<>>]]]
            /\ UNCHANGED outcome
    /\ UNCHANGED <<max_pages, max_profiles, session_driver, instagram_driver, ugc_rows,
                   video_rows, ugc_profile_urls, role, urls, url_i, rows, card_data_list,
                   out, files, plan, resolve, acquired, accepted_all, nav_failed>>

\* mutant of NeedsEnrichment: the test for an e-mail already present is lost
NeedsEnrichmentAnyEmail(row) == row.instagram_handle # ""

\* not row.get("email") and row.get("instagram_handle")
NeedsEnrichment(row) == row.email = <<>> /\ row.instagram_handle # ""

\* the row after the resolver returned email
Enriched(row, email) == IF email # <<>> THEN [row EXCEPT !.email = email] ELSE row

\* enrich_with_instagram_emails: one row of the loop.  get_instagram_driver()
\* starts Chrome on first use (it may fail to start, which the resolver
\* swallows) and the bio page is one of BioPages
EnrichRow ==
    /\ pc = "Enriching"
    /\ enrich_i <= Len(RowsOf(enrich_role))
    /\ LET row == RowsOf(enrich_role)[enrich_i] IN
       IF NeedsEnrichment(row)
       THEN \E starts \in BOOLEAN, bio \in BioPages :
               LET driver_ok == instagram_driver = "open" \/ starts
                   email == fetch_instagram_email_selenium(row.instagram_handle, driver_ok, bio)
                   new == Enriched(row, email)
               IN /\ instagram_driver' = IF driver_ok THEN "open" ELSE instagram_driver
                  /\ acquired' = IF instagram_driver = "none" /\ starts
                                 THEN [acquired EXCEPT !.bio = @ + 1] ELSE acquired
                  /\ ugc_rows' = IF enrich_role = "ugc"
                                 THEN [ugc_rows EXCEPT ![enrich_i] = new] ELSE ugc_rows
                  /\ video_rows' = IF enrich_role = "video_editor"
                                   THEN [video_rows EXCEPT ![enrich_i] = new] ELSE video_rows
                  /\ bio_log' = [bio_log EXCEPT ![enrich_role][enrich_i] =
                                    [calls |-> @.calls + 1, returned |-> email]]
                  /\ nav_failed' = (nav_failed \/ (driver_ok /\ ~bio.loads))
       ELSE UNCHANGED <<instagram_driver, acquired, ugc_rows, video_rows, bio_log, nav_failed>>
    /\ enrich_i' = enrich_i + 1
    /\ UNCHANGED <<pc, outcome, max_pages, max_profiles, session_driver, ugc_profile_urls,
                   role, urls, url_i, rows, card_data_list, out, enrich_role, files, plan, resolve,
                   phases, accepted_all, pre_rows>>

\* save_csv(): the next enrich_with_instagram_emails call, or the export
EnrichNext ==
    /\ pc = "Enriching"
    /\ enrich_i > Len(RowsOf(enrich_role))
    /\ IF enrich_role = "ugc" /\ video_rows # <<>>
       THEN /\ enrich_role' = "video_editor"
            /\ enrich_i' = 1
            /\ UNCHANGED <<pc, phases>>
       ELSE /\ pc' = "ExportUgc"
            /\ enrich_role' = ""
            /\ enrich_i' = 0
            /\ phases' = Append(phases, "Exporting")
    /\ UNCHANGED <<outcome, max_pages, max_profiles, session_driver, instagram_driver,
                   ugc_rows, video_rows, ugc_profile_urls, role, urls, url_i, rows,
                   card_data_list, out, files, plan, resolve, acquired, accepted_all, nav_failed, bio_log, pre_rows>>

\* df[["name", "email", "profile_url", "role_type"]]
ExportTuple(row) ==
    [name |-> row.name, email |-> row.email, profile_url |-> row.profile_url,
     role_type |-> row.role_type]

\* mutant of ExportKeeps: the e-mail filter is lost
ExportKeepsAll(row) == TRUE

\* df["email"].notna() & (df["email"] != "")
ExportKeeps(row) == row.email # <<>>

\* the rows to_csv receives
ExportRows(rs) ==
    LET kept == SelectSeq(rs, ExportKeeps)
    IN [i \in 1..Len(kept) |-> ExportTuple(kept[i])]

\* save_csv(): ugc_creators.csv, when there are ugc rows; to_csv may raise
ExportUgc ==
    /\ pc = "ExportUgc"
    /\ IF ugc_rows # <<>>
       THEN \E written \in BOOLEAN :
               IF written
               THEN /\ files' = [files EXCEPT !["ugc"] =
                                    [written |-> TRUE, rows |-> ExportRows(ugc_rows)]]
                    /\ pc' = "ExportVideo"
                    /\ UNCHANGED outcome
               ELSE /\ pc' = "Finally"
                    /\ outcome' = "export_failed"
                    /\ UNCHANGED files
       ELSE /\ pc' = "ExportVideo"
            /\ UNCHANGED <<files, outcome>>
    /\ UNCHANGED <<max_pages, max_profiles, session_driver, instagram_driver, ugc_rows,
                   video_rows, ugc_profile_urls, role, urls, url_i, rows, card_data_list,
                   out, enrich_role, enrich_i, plan, resolve, acquired, phases,
                   accepted_all, nav_failed, bio_log, pre_rows>>

\* save_csv(): video_editors.csv, when there are video rows, and the return
ExportVideo ==
    /\ pc = "ExportVideo"
    /\ IF video_rows # <<>>
       THEN \E written \in BOOLEAN :
               IF written
               THEN /\ files' = [files EXCEPT !["video_editor"] =
                                    [written |-> TRUE, rows |-> ExportRows(video_rows)]]
                    /\ outcome' = "completed"
                    /\ phases' = Append(phases, "Done")
               ELSE /\ outcome' = "export_failed"
                    /\ UNCHANGED <<files, phases>>
       ELSE /\ outcome' = "completed"
            /\ phases' = Append(phases, "Done")
            /\ UNCHANGED files
    /\ pc' = "Finally"
    /\ UNCHANGED <<max_pages, max_profiles, session_driver, instagram_driver, ugc_rows,
                   video_rows, ugc_profile_urls, role, urls, url_i, rows, card_data_list,
                   out, enrich_role, enrich_i, plan, resolve, acquired, accepted_all, nav_failed, bio_log, pre_rows>>

(* ------------------------- main(): finally, __del__ -------------------- *)
\* driver.quit(): the browser is gone ("none" for session.driver, which
\* close() resets; "quit" for instagram_driver, which stays set), or quit()
\* raised and the reference is still set ("stuck")
QuitResults(gone) == {gone, "stuck"}

\* the instagram driver after the finally block (or __del__), given that
\* session.close() ended in closed: when close() raised, the quit below it is
\* not reached; a browser that is gone stays gone
InstagramAfterFinally(closed, ig, result) ==
    IF closed = "stuck" \/ ig \in {"none", "quit"} THEN ig ELSE result

\* main(): the finally block, scraper.session.close() and then
\* scraper.instagram_driver.quit()
Finally ==
    /\ pc = "Finally"
    /\ \E closed \in (IF session_driver = "none" THEN {"none"} ELSE QuitResults("none")),
          result \in QuitResults("quit") :
          /\ session_driver' = closed
          /\ instagram_driver' = InstagramAfterFinally(closed, instagram_driver, result)
    /\ pc' = "Del"
    /\ UNCHANGED <<outcome, max_pages, max_profiles, ugc_rows, video_rows,
                   ugc_profile_urls, role, urls, url_i, rows, card_data_list, out,
                   enrich_role, enrich_i, files, plan, resolve, acquired, phases, accepted_all,
                   nav_failed, bio_log, pre_rows>>

\* __del__: self.session.close() once more, then self.instagram_driver.quit()
\* on whatever the attribute holds; an exception ends __del__
Del ==
    /\ pc = "Del"
    /\ \E closed \in (IF session_driver = "none" THEN {"none"} ELSE QuitResults("none")),
          result \in QuitResults("quit") :
          /\ session_driver' = closed
          /\ instagram_driver' = InstagramAfterFinally(closed, instagram_driver, result)
    /\ pc' = "Exit"
    /\ UNCHANGED <<outcome, max_pages, max_profiles, ugc_rows, video_rows,
                   ugc_profile_urls, role, urls, url_i, rows, card_data_list, out,
                   enrich_role, enrich_i, files, plan, resolve, acquired, phases, accepted_all,
                   nav_failed, bio_log, pre_rows>>

(* --------------------------- specifications ---------------------------- *)
Next ==
    \/ MainNoCredentials
    \/ Login
    \/ ScrapePage
    \/ ResolveProfile
    \/ PageReturn
    \/ UgcReturn
    \/ VideoReturn
    \/ SaveCsv
    \/ EnrichRow
    \/ EnrichNext
    \/ ExportUgc
    \/ ExportVideo
    \/ Finally
    \/ Del

Spec == Init /\ [][Next]_vars

\* the planner alone: paginate_urls applied to a seed and a page count
PlanInit ==
    /\ max_pages = 1
    /\ max_profiles = 0
    /\ plan \in [pc : {"called"}, seed : Seeds, page_count : 1..MaxPageCount, urls : {<<>>}]
    /\ resolve = ResolveIdle
    /\ RunInit

\* paginate_urls(seed) with self.max_pages = page_count returns
PlanReturn ==
    /\ plan.pc = "called"
    /\ plan' = [plan EXCEPT !.pc = "returned", !.urls = paginate_urls(plan.seed, plan.page_count)]
    /\ UNCHANGED <<max_pages, max_profiles, resolve>>
    /\ UNCHANGED runVars

PlanNext == PlanReturn

SpecPlan == PlanInit /\ [][PlanNext]_vars

\* the profile resolver alone: extract_instagram_from_profile applied to a
\* detail page and an expected role ("" is Python's None)
ResolveInit ==
    /\ max_pages = 1
    /\ max_profiles = 0
    /\ plan = PlanIdle
    /\ resolve \in [pc : {"called"}, page : ProfilePages, expected_role : Roles \cup {""},
                    result : {<<"", FALSE>>}]
    /\ RunInit

\* extract_instagram_from_profile(profile_url, expected_role) returns
ResolveReturn ==
    /\ resolve.pc = "called"
    /\ resolve' = [resolve EXCEPT
                      !.pc = "returned",
                      !.result = extract_instagram_from_profile(resolve.page, resolve.expected_role)]
    /\ UNCHANGED <<max_pages, max_profiles, plan>>
    /\ UNCHANGED runVars

ResolveNext == ResolveReturn

SpecResolve == ResolveInit /\ [][ResolveNext]_vars

(* ------------------------------ properties ----------------------------- *)
IsPrefix(a, b) == Len(a) <= Len(b) /\ SubSeq(b, 1, Len(a)) = a

UrlsOf(rs) == {rs[i].profile_url : i \in 1..Len(rs)}

Ended == pc \in {"Finally", "Del", "Exit"}

LoggedIn == phases # <<>>

FullPhases == <<"ScrapingUGC", "ScrapingVideo", "Enriching", "Exporting", "Done">>

ShortPhases == <<"ScrapingUGC", "ScrapingVideo", "Done">>

SomeRowAccepted == ugc_rows # <<>> \/ video_rows # <<>>

\* C1: a profile URL accepted into ugc_rows is never the profile_url of a row
\* of video_rows, whatever the video_editor listing pages show
C1_UgcUrlsKeptOutOfVideoRows == UrlsOf(ugc_rows) \cap UrlsOf(video_rows) = {}

C3_AllPhasesAlways == outcome = "completed" => phases = FullPhases

\* every row that needed the resolver when save_csv began has been through it
EnrichmentFinished ==
    \A r \in Roles : \A i \in 1..Len(pre_rows[r]) :
        (pre_rows[r][i].email = <<>> /\ pre_rows[r][i].instagram_handle # "")
            => bio_log[r][i].calls = 1

\* C3 amended: the phases are entered in the order ScrapingUGC, ScrapingVideo,
\* Enriching, Exporting, Done; a completed run that accepted a row has entered
\* all five, one that accepted none has gone from ScrapingVideo to Done; a
\* video_editor page is processed only in ScrapingVideo, after the ugc rows
\* are stored, and a file is written only in Exporting, once enrichment is over
C3_PhaseOrder ==
    /\ IsPrefix(phases, FullPhases) \/ phases = ShortPhases
    /\ outcome = "completed" =>
          phases = IF SomeRowAccepted THEN FullPhases ELSE ShortPhases
    /\ pc \in {"Scraping", "Resolving"} =>
          /\ role = "ugc" => phases = <<"ScrapingUGC">> /\ video_rows = <<>>
          /\ role = "video_editor" => phases = <<"ScrapingUGC", "ScrapingVideo">>
    /\ pc = "Enriching" => phases = SubSeq(FullPhases, 1, 3)
    /\ (pc \in {"ExportUgc", "ExportVideo"} \/ \E r \in Roles : files[r].written) =>
          /\ IsPrefix(SubSeq(FullPhases, 1, 4), phases)
          /\ EnrichmentFinished

C3_Witness ==
    /\ outcome = "completed"
    /\ phases = FullPhases
    /\ files["video_editor"].written
    /\ \E i \in 1..Len(video_rows) : bio_log["video_editor"][i].calls = 1

AfterEnrichment == pc \in {"ExportUgc", "ExportVideo"} \/ (Ended /\ "Enriching" \in Range(phases))

NeededResolver(row) == row.email = <<>> /\ row.instagram_handle # ""

\* C5: the resolver is called once for each row that entered enrichment with
\* an empty e-mail and a handle and never for another row; afterwards such a
\* row holds the e-mail the resolver returned (empty when it returned none)
\* and every other row holds the e-mail it had
C5_ResolverCalls ==
    \A r \in Roles : \A i \in 1..Len(bio_log[r]) :
        LET before == pre_rows[r][i]
            now == RowsOf(r)[i]
            log == bio_log[r][i]
        IN /\ log.calls <= (IF NeededResolver(before) THEN 1 ELSE 0)
           /\ ~NeededResolver(before) => now.email = before.email
           /\ AfterEnrichment =>
                 /\ log.calls = (IF NeededResolver(before) THEN 1 ELSE 0)
                 /\ NeededResolver(before) => now.email = log.returned

\* one row was filled by the resolver, one with an e-mail and a handle was
\* left alone, one without a handle was left alone
C5_Witness ==
    /\ AfterEnrichment
    /\ \E r \in Roles : \E i \in 1..Len(bio_log[r]) :
          /\ NeededResolver(pre_rows[r][i])
          /\ RowsOf(r)[i].email # <<>>
    /\ \E r \in Roles : \E i \in 1..Len(bio_log[r]) :
          /\ pre_rows[r][i].email # <<>>
          /\ pre_rows[r][i].instagram_handle # ""

AcceptedRows == Range(ugc_rows) \cup Range(video_rows) \cup Range(rows) \cup Range(out)

\* C6: every accepted row had its detail page loaded with a heading on it that
\* names the role, whatever its listing card showed
C6_DetailHeadingConfirmed == \A row \in AcceptedRows : row.detail_ok

\* rows were accepted in both categories, one whose card showed a heading of
\* the role and one whose card showed none
C6_Witness ==
    /\ pc = "SaveCsv"
    /\ \E row \in Range(video_rows) : row.heading # <<>>
    /\ \E row \in Range(ugc_rows) : row.heading = <<>>

\* C7 as stated: once a page has failed to load, a run that logged in still
\* reaches enrichment and export
C7_FailureStillExports ==
    (nav_failed /\ outcome = "completed") =>
        ("Enriching" \in Range(phases) /\ "Exporting" \in Range(phases))

C7_Recovered ==
    /\ (Ended /\ LoggedIn) =>
          /\ "ScrapingVideo" \in Range(phases)
          /\ outcome \in {"completed", "export_failed"}
          /\ SomeRowAccepted => "Enriching" \in Range(phases)
          /\ (SomeRowAccepted /\ outcome = "completed") => "Exporting" \in Range(phases)
    /\ pc = "SaveCsv" => phases = <<"ScrapingUGC", "ScrapingVideo">>

\* the step in which the first page fails to load
FirstFailure == ~nav_failed /\ nav_failed'

C7_FailureStep ==
    FirstFailure =>
        /\ pc = "Scraping" =>
              /\ pc' = "Resolving" /\ card_data_list' = <<>> /\ out' = <<>>
              /\ UNCHANGED <<rows, url_i, urls, role>>
        /\ pc = "Resolving" =>
              /\ pc' = "Resolving" /\ out' = out /\ card_data_list' = Tail(card_data_list)
              /\ UNCHANGED <<rows, url_i, urls, role>>
        /\ pc = "Enriching" =>
              /\ pc' = "Enriching" /\ enrich_i' = enrich_i + 1
              /\ UNCHANGED <<ugc_rows, video_rows>>

\* scrape_category is left only with every planned page processed or the
\* budget reached
C7_PagesProcessed ==
    (pc = "Scraping" /\ (pc' \notin {"Scraping", "Resolving"} \/ role' # role)) => ScrapeOver

\* C7 amended: a page that fails to load contributes nothing (no cards, no
\* row, no e-mail) and the run goes on: every planned page of the category is
\* processed unless the budget is reached, the other category is scraped,
\* save_csv is entered, and enrichment and export are reached whenever a row
\* was accepted
C7_NavFailureNeverAborts ==
    /\ []C7_Recovered
    /\ [][C7_FailureStep]_vars
    /\ [][C7_PagesProcessed]_vars

C7_Witness ==
    /\ nav_failed
    /\ outcome = "completed"
    /\ files["ugc"].written
    /\ files["video_editor"].written

\* C8: when the process exits, each browser that was started has been quit, or
\* at least its own quit() was called and raised; and each session was
\* started at most once
C8_SessionsReleased ==
    /\ acquired.listing <= 1
    /\ acquired.bio <= 1
    /\ pc = "Exit" =>
          /\ session_driver # "open"
          /\ instagram_driver # "open"

RECURSIVE RowsWithEmail(_)
RowsWithEmail(rs) ==
    IF rs = <<>> THEN <<>>
    ELSE (IF Head(rs).email # <<>>
          THEN << [name |-> Head(rs).name, email |-> Head(rs).email,
                   profile_url |-> Head(rs).profile_url, role_type |-> Head(rs).role_type] >>
          ELSE <<>>) \o RowsWithEmail(Tail(rs))

IsPageField(f) == Len(f) >= 2 /\ f[1] = "page" /\ f[2] = "="

\* the values of the page fields of a URL's query, in order
PageValues(url) ==
    LET fs == SelectSeq(Split(urlparse(url).query, "&"), IsPageField)
    IN [i \in 1..Len(fs) |-> SubSeq(fs[i], 3, Len(fs[i]))]

NonBlank(v) == v # <<>>

\* the seed followed by "&" or "?" and pg = i + 1
PgUrl(seed, i) ==
    seed \o <<IF urlparse(seed).query # <<>> THEN "&" ELSE "?">> \o <<"pg", "=">> \o Str(i + 1)

\* C10 as stated: n URLs, the seed first; with a page parameter of integer
\* value start the i-th additional URL carries page = start + i, otherwise it
\* is the seed followed by "&" or "?" and pg = i + 1
C10_PlanAsStated ==
    plan.pc = "returned" =>
        LET pv == PageValues(plan.seed)
            int == pv # <<>> /\ IsInt(pv[1])
        IN /\ Len(plan.urls) = plan.page_count
           /\ plan.urls[1] = plan.seed
           /\ \A i \in 1..(plan.page_count - 1) :
                 IF int THEN PageValues(plan.urls[i + 1]) = <<Str(ToInt(pv[1]) + i)>>
                 ELSE plan.urls[i + 1] = PgUrl(plan.seed, i)

\* C10 amended: n URLs, the seed first; when the seed's query has a page
\* parameter with a non-blank value, start is the integer value of the first
\* such value, or 1 when that value is not an integer, and the i-th additional
\* URL carries page = start + i; otherwise it is the seed followed by "&"
\* (non-empty query) or "?" and pg = i + 1
C10_Plan ==
    plan.pc = "returned" =>
        LET pv == SelectSeq(PageValues(plan.seed), NonBlank)
            start == IF IsInt(pv[1]) THEN ToInt(pv[1]) ELSE 1
        IN /\ Len(plan.urls) = plan.page_count
           /\ plan.urls[1] = plan.seed
           /\ \A i \in 1..(plan.page_count - 1) :
                 IF pv # <<>> THEN PageValues(plan.urls[i + 1]) = <<Str(start + i)>>
                 ELSE plan.urls[i + 1] = PgUrl(plan.seed, i)

\* the planner numbered from 1 a seed whose page value is not an integer
C10_Witness ==
    /\ plan.pc = "returned"
    /\ PageValues(plan.seed) = << <<"abc">> >>
    /\ plan.page_count >= 3
    /\ PageValues(plan.urls[3]) = << <<"3">> >>

(* ------------------ query parameters kept by the planner --------------- *)
\* the key and the value of one raw field of a query string; a field without
\* "=" is a key with an empty value
FieldKey(f) == IF IndexOf(f, "=") = 0 THEN f ELSE SubSeq(f, 1, IndexOf(f, "=") - 1)

FieldValue(f) == IF IndexOf(f, "=") = 0 THEN <<>> ELSE SubSeq(f, IndexOf(f, "=") + 1, Len(f))

\* the query parameters of a URL other than page, as written in the URL
OtherParams(url) ==
    LET fs == SelectSeq(Split(urlparse(url).query, "&"),
                        LAMBDA f : f # <<>> /\ FieldKey(f) # PageKey)
    IN [i \in 1..Len(fs) |-> [k |-> FieldKey(fs[i]), v |-> FieldValue(fs[i])]]

RECURSIVE GroupByKey(_)
\* the parameters with the keys in the order of their first appearance and
\* the values of one key in their own order
GroupByKey(ps) ==
    IF ps = <<>> THEN <<>>
    ELSE SelectSeq(ps, LAMBDA p : p.k = Head(ps).k)
         \o GroupByKey(SelectSeq(ps, LAMBDA p : p.k # Head(ps).k))

\* C11: when the seed has a page parameter (with a value), every additional
\* URL carries every other query parameter of the seed as the seed wrote it:
\* same keys, same values (empty ones included), same multiplicity, the keys
\* in the order of their first appearance
C11_OtherParamsUnchanged ==
    (plan.pc = "returned" /\ SelectSeq(PageValues(plan.seed), NonBlank) # <<>>) =>
        \A i \in 2..Len(plan.urls) :
            OtherParams(plan.urls[i]) = GroupByKey(OtherParams(plan.seed))

(* ------------------------- the coarse role filter ---------------------- *)
\* the candidates whose detail page is fetched: those waiting in
\* card_data_list (the second loop fetches each of them) and those accepted
FetchedCandidates == Range(card_data_list) \cup AcceptedRows

\* C12 as stated: a detail page is fetched only for a candidate whose card
\* heading passes validate_heading_for_role, so a card with no heading is
\* dropped without a fetch
C12_FetchOnlyAfterCoarseMatch ==
    \A d \in FetchedCandidates : validate_heading_for_role(d.heading, d.role_type)

\* C12 amended: a detail page is fetched only for a candidate whose card
\* heading is empty or passes validate_heading_for_role; a card whose heading
\* is present and does not name the role is dropped without a fetch
C12_FetchUnlessCoarseMismatch ==
    \A d \in FetchedCandidates :
        d.heading = <<>> \/ validate_heading_for_role(d.heading, d.role_type)

\* the detail page of a video_editor card without a heading was fetched and
\* the candidate accepted, while another candidate still waits for its fetch
C12_Witness ==
    /\ pc = "Resolving"
    /\ card_data_list # <<>>
    /\ \E row \in Range(out) :
          row.heading = <<>> /\ row.role_type = "video_editor" /\ row.detail_ok

(* ----------------------- properties of the resolver -------------------- *)
\* C13: extract_instagram_from_profile returns an empty handle whenever the
\* role is not confirmed: a non-empty handle comes only with True
C13_HandleOnlyWhenConfirmed ==
    resolve.pc = "returned" => (resolve.result[2] \/ resolve.result[1] = "")

(* --------------------------- the rows of a run ------------------------- *)
\* C14: every row of ugc_rows and video_rows has an e-mail that is empty or
\* accepted by validate_email, a non-empty profile_url and a non-empty name
C14_RowsWellFormed ==
    \A row \in Range(ugc_rows) \cup Range(video_rows) :
        /\ row.email = <<>> \/ validate_email(row.email)
        /\ row.profile_url # <<>>
        /\ row.name # <<>>

\* after enrichment one category holds a row whose e-mail came from the
\* Instagram bio and the other a row whose e-mail came from its listing card
C14_Witness ==
    /\ pc = "ExportUgc"
    /\ \E r \in Roles : \E i \in 1..Len(RowsOf(r)) :
          /\ pre_rows[r][i].email = <<>>
          /\ RowsOf(r)[i].email = MailBio
    /\ \E r \in Roles : \E i \in 1..Len(RowsOf(r)) :
          /\ pre_rows[r][i].email = MailOk
          /\ RowsOf(r)[i].email = MailOk

====
